---- MODULE Spec2Model ----
(***************************************************************************)
(* Ticket lifecycle of the support-ticket platform: comment creation       *)
(* (backend routes/comments), Zendesk import, manual status updates,       *)
(* assignment and the automation sweep, over a small database.             *)
(***************************************************************************)
EXTENDS Integers, Sequences, FiniteSets, TLC

(* ---------------------------------------------------------------- bounds *)
MaxTime == 2
MaxRows == 3
\* comments and time entries a ticket of the contribution report carries
MaxComments == 4
MaxEntries == 2
\* comments, and time entries, the agents of the performance report have
MaxWork == 2

(* ------------------------------------------------------------- constants *)
Null == "null"
NotFetched == "undefined"
NoTime == 0 - 1
\* a time entry's duration while its timer runs
NoDuration == 0 - 1
\* no analytics answer yet
NoReport == [kind |-> "none"]

Users == {"u1", "u2", "a1", "a2"}
userRole == [u \in Users |->
               CASE u = "a1" -> "AGENT" [] u = "a2" -> "ADMIN" [] OTHER -> "USER"]
Agents == {u \in Users : userRole[u] \in {"AGENT", "ADMIN"}}

\* browser tabs showing the dashboard, and the agent signed in on each
Tabs == {"tabA", "tabB", "tabC"}
tabAgent == [b \in Tabs |-> IF b = "tabC" THEN "a2" ELSE "a1"]

TicketIds == {"t1", "t2"}
\* the ticket the request-handler specifications work on
OneTicket == {"t1"}
\* browsers in which an admin has the settings page open
SettingsClients == {"s1", "s2"}

\* the Settings row the lifecycle runs with, and the row created with data: {}
InitialSettings ==
    [autoSolveEnabled |-> TRUE, autoSolveHours |-> 1,
     autoCloseEnabled |-> TRUE, autoCloseHours |-> 1,
     pendingTicketReminderHours |-> 1, autoDeleteAttachmentsDays |-> 1]
DefaultSettings ==
    [autoSolveEnabled |-> FALSE, autoSolveHours |-> 48,
     autoCloseEnabled |-> FALSE, autoCloseHours |-> 48,
     pendingTicketReminderHours |-> 24, autoDeleteAttachmentsDays |-> 90]

TicketStatus == {"NEW", "OPEN", "PENDING", "ON_HOLD", "SOLVED", "CLOSED"}

VARIABLES now, tickets, comments, activities, agentSessions, settings,
          resp, assignView, assignPending, assignResp, tabPc, tabSession,
          sweepPc, sweepQueue, sweepDone, sweepFailures,
          timeEntries, report, settingsPc, settingsView, commentRead

lifeVars == <<now, tickets, comments, activities, agentSessions, settings, resp>>
assignVars == <<assignView, assignPending, assignResp>>
tabVars == <<tabPc, tabSession>>
sweepVars == <<sweepPc, sweepQueue, sweepDone, sweepFailures>>
scoreVars == <<timeEntries, report>>
adminVars == <<settingsPc, settingsView>>
\* what a ticket request handler never touches: the browsers' state, the running
\* sweep's, the time-tracking ledger, the last analytics answer and the settings
\* page's
clientVars == <<assignView, assignPending, assignResp, tabPc, tabSession,
                sweepPc, sweepQueue, sweepDone, sweepFailures, timeEntries, report,
                settingsPc, settingsView, commentRead>>
vars == <<now, tickets, comments, activities, agentSessions, settings,
          resp, assignView, assignPending, assignResp, tabPc, tabSession,
          sweepPc, sweepQueue, sweepDone, sweepFailures, timeEntries, report,
          settingsPc, settingsView, commentRead>>

\* prisma.settings.findFirst()
settingsRow == settings[1]

NoTicket == [exists |-> FALSE, status |-> Null, requesterId |-> Null,
             assigneeId |-> Null, firstResponseAt |-> NoTime, solvedAt |-> NoTime]

\* comment rows and activity entries stored so far
Rows == Len(comments) + Len(activities)

(* ------------------------------------------------------ requireRole etc. *)
requireRole(roles, u) == userRole[u] \in roles
requireAgent(u) == requireRole({"AGENT", "ADMIN"}, u)
requireAdmin(u) == requireRole({"ADMIN"}, u)

(* ------------------------------------------------- comments: POST /      *)
isInternalNote(isInternal, role) == isInternal /\ (role = "AGENT" \/ role = "ADMIN")

commentForbidden_Never(role, requesterId, userId) == FALSE

\* "Users can only comment on their own tickets"
commentForbidden(role, requesterId, userId) == role = "USER" /\ requesterId # userId

\* updateData.status: the status the ticket row holds after ticket.update.
\* ticketPending is ticket.status === 'PENDING' as read by findUnique, cur the row's status when
\* the update is written (kept when updateData carries no status).
NewStatus_AgentKeeps(role, internalNote, ticketPending, cur) ==
    IF role = "USER" /\ ticketPending THEN "OPEN" ELSE cur

NewStatus_UserAlwaysOpen(role, internalNote, ticketPending, cur) ==
    IF role = "AGENT" \/ role = "ADMIN"
    THEN IF ~internalNote THEN "PENDING" ELSE cur
    ELSE "OPEN"

NewStatus_NoteSetsPending(role, internalNote, ticketPending, cur) ==
    IF role = "AGENT" \/ role = "ADMIN"
    THEN "PENDING"
    ELSE IF role = "USER" /\ ticketPending THEN "OPEN" ELSE cur

NewStatus(role, internalNote, ticketPending, cur) ==
    IF role = "AGENT" \/ role = "ADMIN"
    THEN IF ~internalNote THEN "PENDING" ELSE cur
    ELSE IF role = "USER" /\ ticketPending THEN "OPEN" ELSE cur

\* updateData.firstResponseAt
NewFirstResponseAt(role, ticketNoFirstResponse, cur, t) ==
    IF (role = "AGENT" \/ role = "ADMIN") /\ ticketNoFirstResponse
    THEN t ELSE cur

\* agentSession.findFirst({agentId, logoutAt: null}, orderBy loginAt desc)
ActiveSessions(a) ==
    {k \in 1..Len(agentSessions) :
        agentSessions[k].agentId = a /\ agentSessions[k].logoutAt = NoTime}

activeSession(a) ==
    IF ActiveSessions(a) = {} THEN 0
    ELSE CHOOSE k \in ActiveSessions(a) :
            \A j \in ActiveSessions(a) :
                \/ agentSessions[j].loginAt < agentSessions[k].loginAt
                \/ (agentSessions[j].loginAt = agentSessions[k].loginAt /\ j >= k)

\* The awaited calls of the handler, in order; FailPoints are the calls that
\* may reject after the 404/403 checks ("none": no call rejects).
FailPoints == {"none", "comment.create", "ticket.update", "agentSession"}

\* prisma.comment.create
CommentRow(u, t, i) ==
    [ticketId |-> t, authorId |-> u, isInternal |-> isInternalNote(i, userRole[u]),
     isSystem |-> FALSE, channel |-> "WEB", createdAt |-> now]

\* prisma.ticket.update: the row after the update
TicketAfterComment(u, t, i) ==
    [tickets[t] EXCEPT
       !.status = NewStatus(userRole[u], isInternalNote(i, userRole[u]),
                            tickets[t].status = "PENDING", tickets[t].status),
       !.firstResponseAt = NewFirstResponseAt(userRole[u], tickets[t].firstResponseAt = NoTime,
                                              tickets[t].firstResponseAt, now)]

\* the nested activities.create of ticket.update
CommentAdded(u, t, i, commentId) ==
    [ticketId |-> t, userId |-> u, action |-> "comment_added",
     details |-> [commentId |-> commentId, isInternal |-> isInternalNote(i, userRole[u])]]

SessionsAfterComment_AgentOnly(u) ==
    IF userRole[u] = "AGENT" /\ activeSession(u) # 0
    THEN [agentSessions EXCEPT ![activeSession(u)].replyCount = @ + 1]
    ELSE agentSessions

SessionsAfterComment_AllActive(u) ==
    IF userRole[u] = "AGENT" \/ userRole[u] = "ADMIN"
    THEN [k \in 1..Len(agentSessions) |->
             IF k \in ActiveSessions(u)
             THEN [agentSessions[k] EXCEPT !.replyCount = @ + 1]
             ELSE agentSessions[k]]
    ELSE agentSessions

\* agentSession.update: replyCount increment of the active session, if any
SessionsAfterComment(u) ==
    IF (userRole[u] = "AGENT" \/ userRole[u] = "ADMIN") /\ activeSession(u) # 0
    THEN [agentSessions EXCEPT ![activeSession(u)].replyCount = @ + 1]
    ELSE agentSessions

CreateComment_Prepend(u, t, i, failAt) ==
    /\ IF ~tickets[t].exists
       THEN /\ resp' = 404
            /\ UNCHANGED <<tickets, comments, activities, agentSessions>>
       ELSE IF commentForbidden(userRole[u], tickets[t].requesterId, u)
       THEN /\ resp' = 403
            /\ UNCHANGED <<tickets, comments, activities, agentSessions>>
       ELSE /\ Rows + 2 <= MaxRows
            /\ failAt = "agentSession" => userRole[u] \in {"AGENT", "ADMIN"}
            /\ resp' = IF failAt = "none" THEN 201 ELSE 500
            /\ comments' = IF failAt = "comment.create" THEN comments
                           ELSE Append(comments, CommentRow(u, t, i))
            /\ IF failAt \in {"comment.create", "ticket.update"}
               THEN UNCHANGED <<tickets, activities>>
               ELSE /\ tickets' = [tickets EXCEPT ![t] = TicketAfterComment(u, t, i)]
                    /\ activities' = <<CommentAdded(u, t, i, Len(comments) + 1)>>
                                     \o activities
            /\ agentSessions' = IF failAt = "none" THEN SessionsAfterComment(u)
                                ELSE agentSessions
    /\ UNCHANGED <<now, settings, clientVars>>

\* POST /comments. The handler runs its awaited calls one after another with
\* no transaction; a call that rejects is caught and answered 500, and what
\* the calls before it wrote stays written.
CreateComment(u, t, i, failAt) ==
    /\ IF ~tickets[t].exists
       THEN /\ resp' = 404
            /\ UNCHANGED <<tickets, comments, activities, agentSessions>>
       ELSE IF commentForbidden(userRole[u], tickets[t].requesterId, u)
       THEN /\ resp' = 403
            /\ UNCHANGED <<tickets, comments, activities, agentSessions>>
       ELSE /\ Rows + 2 <= MaxRows
            /\ failAt = "agentSession" => userRole[u] \in {"AGENT", "ADMIN"}
            /\ resp' = IF failAt = "none" THEN 201 ELSE 500
            /\ comments' = IF failAt = "comment.create" THEN comments
                           ELSE Append(comments, CommentRow(u, t, i))
            /\ IF failAt \in {"comment.create", "ticket.update"}
               THEN UNCHANGED <<tickets, activities>>
               ELSE /\ tickets' = [tickets EXCEPT ![t] = TicketAfterComment(u, t, i)]
                    /\ activities' = Append(activities,
                                            CommentAdded(u, t, i, Len(comments) + 1))
            /\ agentSessions' = IF failAt = "none" THEN SessionsAfterComment(u)
                                ELSE agentSessions
    /\ UNCHANGED <<now, settings, clientVars>>

(* ------------------------------------------------ tickets: create/import *)
\* POST /tickets as CreateTicket.tsx calls it: a new ticket of the submitter
CreateTicket(u, t) ==
    /\ ~tickets[t].exists
    /\ tickets' = [tickets EXCEPT ![t] =
           [exists |-> TRUE, status |-> "NEW", requesterId |-> u, assigneeId |-> Null,
            firstResponseAt |-> NoTime, solvedAt |-> NoTime]]
    /\ UNCHANGED <<now, comments, activities, agentSessions, settings, clientVars>>
    /\ resp' = 201

ZendeskStatus == {"new", "open", "pending", "hold", "solved", "closed", "Solved", "deleted"}

toLowerCase(z) == IF z = "Solved" THEN "solved" ELSE z

mapStatus(zendeskStatus) ==
    LET z == toLowerCase(zendeskStatus)
    IN  CASE z = "new" -> "NEW"
          [] z = "open" -> "OPEN"
          [] z = "pending" -> "PENDING"
          [] z = "hold" -> "ON_HOLD"
          [] z = "solved" -> "SOLVED"
          [] z = "closed" -> "SOLVED"
          [] OTHER -> "NEW"

\* "Determine solved date": solved_at wins, else updated_at or now for a
\* status that is exactly 'solved' or 'closed'
importSolvedAt(z, t) ==
    IF z.solved_at # NoTime THEN z.solved_at
    ELSE IF z.status = "solved" \/ z.status = "closed"
         THEN (IF z.updated_at # NoTime THEN z.updated_at ELSE t)
         ELSE NoTime

ZendeskTickets ==
    [status : ZendeskStatus, solved_at : {NoTime} \cup 0..now,
     updated_at : {NoTime} \cup 0..now]

\* POST /import, one ticket of the file with no embedded comments
ImportTicket(admin, t, z, requester, assignee) ==
    /\ requireAdmin(admin)
    /\ ~tickets[t].exists
    /\ tickets' = [tickets EXCEPT ![t] =
           [exists |-> TRUE, status |-> mapStatus(z.status), requesterId |-> requester,
            assigneeId |-> assignee, firstResponseAt |-> NoTime,
            solvedAt |-> importSolvedAt(z, now)]]
    /\ UNCHANGED <<now, comments, activities, agentSessions, settings, clientVars>>
    /\ resp' = 200

\* POST /import, one ticket of the file with one embedded comment of author
\* (userMap.get(comment.author_id) || adminUser.id); isPublic is comment.public
ImportTicketWithComment(admin, t, z, requester, assignee, author, isPublic) ==
    /\ requireAdmin(admin)
    /\ ~tickets[t].exists
    /\ Rows + 1 <= MaxRows
    /\ tickets' = [tickets EXCEPT ![t] =
           [exists |-> TRUE, status |-> mapStatus(z.status), requesterId |-> requester,
            assigneeId |-> assignee, firstResponseAt |-> NoTime,
            solvedAt |-> importSolvedAt(z, now)]]
    /\ comments' = Append(comments,
           [ticketId |-> t, authorId |-> author, isInternal |-> ~isPublic,
            isSystem |-> FALSE, channel |-> "SYSTEM", createdAt |-> now])
    /\ UNCHANGED <<now, activities, agentSessions, settings, clientVars>>
    /\ resp' = 200

(* ------------------------------------------- tickets: manual status update *)
DetailStatuses == {"NEW", "OPEN", "PENDING", "ON_HOLD", "SOLVED"}
\* handleMarkAsSpam sends 'SOLVED' (first dashboard) or 'CLOSED' (second)
SpamStatuses == {"SOLVED", "CLOSED"}

\* solvedAt after a manual status change
ManualSolvedAt(old, new, cur, t) ==
    IF new = "SOLVED" THEN (IF old = "SOLVED" /\ cur # NoTime THEN cur ELSE t)
    ELSE IF new = "CLOSED" THEN cur
    ELSE NoTime

StatusChanged(t, u, old, new) ==
    [ticketId |-> t, userId |-> u, action |-> "status_changed",
     details |-> [oldStatus |-> old, newStatus |-> new]]

\* PATCH /tickets/:id {status}
UpdateTicket(actor, t, s) ==
    /\ tickets[t].exists
    /\ IF ~requireAgent(actor)
       THEN /\ resp' = 403
            /\ UNCHANGED <<tickets, activities>>
       ELSE /\ Rows + 1 <= MaxRows
            /\ tickets' = [tickets EXCEPT
                   ![t].status = s,
                   ![t].solvedAt = ManualSolvedAt(tickets[t].status, s,
                                                  tickets[t].solvedAt, now)]
            /\ activities' = Append(activities,
                                    StatusChanged(t, actor, tickets[t].status, s))
            /\ resp' = 200
    /\ UNCHANGED <<now, comments, agentSessions, settings, clientVars>>

\* TicketDetail status select: sends the update only for a status other than
\* the ticket's
handleStatusChange(actor, t, s) ==
    /\ s # tickets[t].status
    /\ UpdateTicket(actor, t, s)

\* PATCH /tickets/bulk/update {ticketIds, status}; one ticket id per call here
BulkUpdate(actor, t, s) ==
    /\ requireAgent(actor)
    /\ tickets[t].exists
    /\ Rows + 1 <= MaxRows
    /\ tickets' = [tickets EXCEPT
           ![t].status = s,
           ![t].solvedAt = ManualSolvedAt(tickets[t].status, s, tickets[t].solvedAt, now)]
    /\ activities' = Append(activities, StatusChanged(t, actor, tickets[t].status, s))
    /\ UNCHANGED <<now, comments, agentSessions, settings, clientVars>>
    /\ resp' = 200

(* ------------------------------------------------------ automation sweep *)
AgentReplies(t) ==
    {k \in 1..Len(comments) :
        /\ comments[k].ticketId = t
        /\ comments[k].authorId \in Agents
        /\ ~comments[k].isInternal}

lastAgentReplyTime(t) ==
    IF AgentReplies(t) = {} THEN NoTime
    ELSE comments[CHOOSE k \in AgentReplies(t) :
                    \A j \in AgentReplies(t) : comments[j].createdAt <= comments[k].createdAt
                 ].createdAt

autoSolveDue_IgnoresEnabled(t) ==
    /\ tickets[t].exists
    /\ tickets[t].status = "PENDING"
    /\ lastAgentReplyTime(t) # NoTime
    /\ now - lastAgentReplyTime(t) >= settingsRow.autoSolveHours

autoSolveDue(t) ==
    /\ settingsRow.autoSolveEnabled
    /\ tickets[t].exists
    /\ tickets[t].status = "PENDING"
    /\ lastAgentReplyTime(t) # NoTime
    /\ now - lastAgentReplyTime(t) >= settingsRow.autoSolveHours

autoCloseDue_AnyStatus(t) ==
    /\ settingsRow.autoCloseEnabled
    /\ tickets[t].exists
    /\ tickets[t].solvedAt # NoTime
    /\ now - tickets[t].solvedAt >= settingsRow.autoCloseHours

autoCloseDue(t) ==
    /\ settingsRow.autoCloseEnabled
    /\ tickets[t].exists
    /\ tickets[t].status = "SOLVED"
    /\ tickets[t].solvedAt # NoTime
    /\ now - tickets[t].solvedAt >= settingsRow.autoCloseHours

AutoSolve(t) ==
    /\ autoSolveDue(t)
    /\ Rows + 1 <= MaxRows
    /\ tickets' = [tickets EXCEPT ![t].status = "SOLVED", ![t].solvedAt = now]
    /\ activities' = Append(activities, StatusChanged(t, Null, "PENDING", "SOLVED"))
    /\ UNCHANGED <<now, comments, agentSessions, settings, resp, clientVars>>

AutoClose(t) ==
    /\ autoCloseDue(t)
    /\ Rows + 1 <= MaxRows
    /\ tickets' = [tickets EXCEPT ![t].status = "CLOSED"]
    /\ activities' = Append(activities, StatusChanged(t, Null, "SOLVED", "CLOSED"))
    /\ UNCHANGED <<now, comments, agentSessions, settings, resp, clientVars>>

Tick ==
    /\ now < MaxTime
    /\ now' = now + 1
    /\ UNCHANGED <<tickets, comments, activities, agentSessions, settings, resp, clientVars>>

InitLife ==
    /\ now = 0
    /\ tickets = [t \in TicketIds |-> NoTicket]
    /\ comments = <<>>
    /\ activities = <<>>
    /\ agentSessions = <<[agentId |-> "a1", loginAt |-> 0, logoutAt |-> NoTime,
                          duration |-> NoTime, replyCount |-> 0]>>
    /\ settings = <<InitialSettings>>
    /\ resp = 0

InitAssignIdle ==
    /\ assignView = [a \in Agents |-> [t \in TicketIds |-> NotFetched]]
    /\ assignPending = [a \in Agents |-> Null]
    /\ assignResp = [a \in Agents |-> 0]

InitTabs ==
    /\ tabPc = [b \in Tabs |-> "unmounted"]
    /\ tabSession = [b \in Tabs |-> Null]

\* no sweep is running
InitSweep ==
    /\ sweepPc = "idle"
    /\ sweepQueue = {}
    /\ sweepDone = {}
    /\ sweepFailures = {}

\* no time tracked, no analytics asked
InitScore ==
    /\ timeEntries = <<>>
    /\ report = NoReport

\* no settings page is open
InitAdmin ==
    /\ settingsPc = [c \in SettingsClients |-> "idle"]
    /\ settingsView = [c \in SettingsClients |-> 0]

\* no POST /comments request is between its read and its writes
NoRead == [kind |-> "none"]

InitReply == commentRead = [u \in Users |-> NoRead]

Init == InitLife /\ InitAssignIdle /\ InitTabs /\ InitSweep /\ InitScore /\ InitAdmin /\ InitReply

Next ==
    \/ \E u \in Users, t \in OneTicket, i \in BOOLEAN, f \in FailPoints :
          CreateComment(u, t, i, f)
    \/ \E t \in OneTicket : CreateTicket("u1", t)
    \/ \E t \in OneTicket, z \in ZendeskTickets : ImportTicket("a2", t, z, "u1", Null)
    \/ \E t \in OneTicket, s \in DetailStatuses : handleStatusChange("a1", t, s)
    \/ \E t \in OneTicket : UpdateTicket("u1", t, "SOLVED")
    \/ \E t \in OneTicket, s \in SpamStatuses : BulkUpdate("a2", t, s)
    \/ \E t \in OneTicket : AutoSolve(t)
    \/ \E t \in OneTicket : AutoClose(t)
    \/ Tick

Spec == Init /\ [][Next]_vars

\* the request handlers alone, at one instant (no clock, no sweep)
NextRequests ==
    \/ \E u \in Users, t \in OneTicket, i \in BOOLEAN, f \in FailPoints :
          CreateComment(u, t, i, f)
    \/ \E t \in OneTicket : CreateTicket("u1", t)
    \/ \E t \in OneTicket, z \in ZendeskTickets : ImportTicket("a2", t, z, "u1", Null)
    \/ \E t \in OneTicket, s \in DetailStatuses : handleStatusChange("a1", t, s)
    \/ \E t \in OneTicket : UpdateTicket("u1", t, "SOLVED")
    \/ \E t \in OneTicket, s \in SpamStatuses : BulkUpdate("a2", t, s)

SpecRequests == Init /\ [][NextRequests]_vars

(* ------------------------------------------------------------ assignment *)
\* assignView[a][t]: ticket.assignee as the TicketDetail page of agent a holds
\* it; NotFetched while the query has no data (the page shows no actions)
\* TicketDetail of agent a (re)fetches the ticket: useQuery(['ticket', id]),
\* also after invalidateQueries
FetchTicket(a, t) ==
    /\ requireAgent(a)
    /\ tickets[t].exists
    /\ assignView[a][t] # tickets[t].assigneeId
    /\ assignView' = [assignView EXCEPT ![a][t] = tickets[t].assigneeId]
    /\ UNCHANGED <<lifeVars, assignPending, assignResp, tabVars, sweepVars, scoreVars, adminVars, commentRead>>

\* "Assign to Me": shown while the fetched ticket has no assignee, disabled
\* while the mutation is pending; sends PATCH /tickets/:id {assigneeId: me}
AssignToMe(a, t) ==
    /\ requireAgent(a)
    /\ tickets[t].exists
    /\ assignView[a][t] = Null
    /\ assignPending[a] = Null
    /\ assignPending' = [assignPending EXCEPT ![a] = t]
    /\ assignResp' = [assignResp EXCEPT ![a] = 0]
    /\ UNCHANGED <<lifeVars, assignView, tabVars, sweepVars, scoreVars, adminVars, commentRead>>

AssigneeChanged(t, u, old, new) ==
    [ticketId |-> t, userId |-> u, action |-> "assignee_changed",
     details |-> [oldAssignee |-> old, newAssignee |-> new]]

\* PATCH /tickets/:id {assigneeId} of agent a arrives at the backend, which
\* writes the assignee without looking at the current one
UpdateAssignee(a, t) ==
    /\ assignPending[a] = t
    /\ Rows + 1 <= MaxRows
    /\ assignPending' = [assignPending EXCEPT ![a] = Null]
    /\ tickets' = [tickets EXCEPT ![t].assigneeId = a]
    /\ activities' = Append(activities, AssigneeChanged(t, a, tickets[t].assigneeId, a))
    /\ assignResp' = [assignResp EXCEPT ![a] = 200]
    /\ UNCHANGED <<now, comments, agentSessions, settings, resp, assignView, tabVars, sweepVars, scoreVars, adminVars, commentRead>>

NextAssign ==
    \/ \E t \in OneTicket : CreateTicket("u1", t)
    \/ \E t \in OneTicket, z \in ZendeskTickets, x \in Agents \cup {Null} :
          ImportTicket("a2", t, z, "u1", x)
    \/ \E a \in Agents, t \in OneTicket : FetchTicket(a, t)
    \/ \E a \in Agents, t \in OneTicket : AssignToMe(a, t)
    \/ \E a \in Agents, t \in OneTicket : UpdateAssignee(a, t)

SpecAssign == Init /\ [][NextAssign]_vars

(* ------------------------------------------------ settings: PATCH /:id  *)
\* the request bodies tried: one field each
SettingsPatches ==
    {[autoSolveEnabled |-> FALSE], [autoSolveHours |-> 0], [autoSolveHours |-> 2]}

\* req.body field f is defined and below 1
belowOne(updateData, f) == f \in DOMAIN updateData /\ updateData[f] < 1

UpdateSettings(actor, id, updateData) ==
    /\ IF ~requireAdmin(actor)
       THEN resp' = 403 /\ UNCHANGED settings
       ELSE IF \/ belowOne(updateData, "pendingTicketReminderHours")
               \/ belowOne(updateData, "autoCloseHours")
               \/ belowOne(updateData, "autoSolveHours")
       THEN resp' = 400 /\ UNCHANGED settings
       ELSE IF id \notin 1..Len(settings)
       THEN resp' = 500 /\ UNCHANGED settings
       ELSE /\ settings' = [settings EXCEPT ![id] =
                              [f \in DOMAIN settings[id] |->
                                  IF f \in DOMAIN updateData THEN updateData[f]
                                  ELSE settings[id][f]]]
            /\ resp' = 200
    /\ UNCHANGED <<now, tickets, comments, activities, agentSessions, assignVars, tabVars,
                   sweepVars, scoreVars, adminVars, commentRead>>

(* ------------------------------------------- runAutomationSweep, a run  *)
\* the sweep reads the tickets it will go over
SweepStart ==
    /\ sweepPc = "idle"
    /\ sweepPc' = "running"
    /\ sweepQueue' = {t \in TicketIds : tickets[t].exists}
    /\ sweepDone' = {}
    /\ sweepFailures' = {}
    /\ UNCHANGED <<lifeVars, assignVars, tabVars, scoreVars, adminVars, commentRead>>

\* the tickets left to process after ticket t failed
queueAfterFailure_Abort(queue, t) == {}

queueAfterFailure(queue, t) == queue \ {t}

\* one ticket of the run, in one transaction: the rules are evaluated on the
\* row as it is now and the transition is written; failed: the storage
\* refuses, nothing is written and the ticket is collected in failures
SweepTicket(t, failed) ==
    /\ sweepPc = "running"
    /\ t \in sweepQueue
    /\ IF failed
       THEN /\ sweepFailures' = sweepFailures \cup {t}
            /\ sweepQueue' = queueAfterFailure(sweepQueue, t)
            /\ UNCHANGED <<tickets, activities, sweepDone>>
       ELSE /\ sweepDone' = sweepDone \cup {t}
            /\ sweepQueue' = sweepQueue \ {t}
            /\ UNCHANGED sweepFailures
            /\ IF autoSolveDue(t)
               THEN /\ Rows + 1 <= MaxRows
                    /\ tickets' = [tickets EXCEPT ![t].status = "SOLVED", ![t].solvedAt = now]
                    /\ activities' = Append(activities,
                                            StatusChanged(t, Null, "PENDING", "SOLVED"))
               ELSE IF autoCloseDue(t)
               THEN /\ Rows + 1 <= MaxRows
                    /\ tickets' = [tickets EXCEPT ![t].status = "CLOSED"]
                    /\ activities' = Append(activities,
                                            StatusChanged(t, Null, "SOLVED", "CLOSED"))
               ELSE UNCHANGED <<tickets, activities>>
    /\ UNCHANGED <<now, comments, agentSessions, settings, resp, assignVars, tabVars, scoreVars, adminVars, commentRead, sweepPc>>

\* the run answers {autoSolved, autoClosed, failures}
SweepFinish ==
    /\ sweepPc = "running"
    /\ sweepQueue = {}
    /\ sweepPc' = "idle"
    /\ UNCHANGED <<lifeVars, assignVars, tabVars, scoreVars, adminVars, commentRead, sweepQueue, sweepDone, sweepFailures>>

SweepStep == (\E t \in TicketIds, failed \in BOOLEAN : SweepTicket(t, failed)) \/ SweepFinish

\* manual status updates tried while a sweep runs
SweepManual == {"OPEN", "SOLVED"}

\* one ticket under replies, manual updates, settings changes, the clock and
\* sweep runs
NextSweep ==
    \/ \E t \in OneTicket : CreateTicket("u1", t)
    \/ \E t \in OneTicket, z \in ZendeskTickets : ImportTicket("a2", t, z, "u1", Null)
    \/ \E u \in {"u1", "a1"}, t \in OneTicket : CreateComment(u, t, FALSE, "none")
    \/ \E t \in OneTicket, s \in SweepManual : handleStatusChange("a1", t, s)
    \/ \E d \in SettingsPatches : UpdateSettings("a2", 1, d)
    \/ SweepStart
    \/ \E t \in OneTicket, failed \in BOOLEAN : SweepTicket(t, failed)
    \/ SweepFinish
    \/ Tick

SpecSweep == Init /\ [][NextSweep]_vars

\* two tickets under manual updates, the clock and sweep runs
NextSweepRun ==
    \/ \E t \in TicketIds : CreateTicket("u1", t)
    \/ \E t \in TicketIds : handleStatusChange("a1", t, "SOLVED")
    \/ SweepStart
    \/ \E t \in TicketIds, failed \in BOOLEAN : SweepTicket(t, failed)
    \/ SweepFinish
    \/ Tick

\* a started run is a loop that keeps going until it has answered
SpecSweepRun == Init /\ [][NextSweepRun]_vars /\ WF_vars(SweepStep)

(* -------------------------------------------------------------- sessions *)
\* one clock unit of the session model stands for 24 hours
CleanupAfter == 1

Min(a, b) == IF a < b THEN a ELSE b

closeSession(s, t) == [s EXCEPT !.logoutAt = t, !.duration = t - s.loginAt]

\* POST /sessions/start of the dashboard mounting on tab b, first call: the
\* agent's active sessions are force-closed against now
StartSessionClose(b) ==
    /\ tabPc[b] = "unmounted"
    /\ tabPc' = [tabPc EXCEPT ![b] = "starting"]
    /\ agentSessions' =
          [k \in 1..Len(agentSessions) |->
              IF agentSessions[k].agentId = tabAgent[b] /\ agentSessions[k].logoutAt = NoTime
              THEN closeSession(agentSessions[k], now)
              ELSE agentSessions[k]]
    /\ UNCHANGED <<now, tickets, comments, activities, settings, resp,
                   assignView, assignPending, assignResp, tabSession, sweepVars, scoreVars, adminVars, commentRead>>

\* POST /sessions/start, second call: the new session is created with
\* loginAt = now and its id is answered (setActiveSessionId)
StartSessionCreate(b) ==
    /\ tabPc[b] = "starting"
    /\ Len(agentSessions) < MaxRows
    /\ agentSessions' = Append(agentSessions,
          [agentId |-> tabAgent[b], loginAt |-> now, logoutAt |-> NoTime,
           duration |-> NoTime, replyCount |-> 0])
    /\ tabSession' = [tabSession EXCEPT ![b] = Len(agentSessions) + 1]
    /\ tabPc' = [tabPc EXCEPT ![b] = "mounted"]
    /\ UNCHANGED <<now, tickets, comments, activities, settings, resp,
                   assignView, assignPending, assignResp, sweepVars, scoreVars, adminVars, commentRead>>

\* POST /sessions/end/:id on unmount, sign-out or beforeunload of tab b
EndSession(b) ==
    /\ tabPc[b] = "mounted"
    /\ agentSessions' = [agentSessions EXCEPT
          ![tabSession[b]] = closeSession(@, now)]
    /\ tabSession' = [tabSession EXCEPT ![b] = Null]
    /\ tabPc' = [tabPc EXCEPT ![b] = "unmounted"]
    /\ UNCHANGED <<now, tickets, comments, activities, settings, resp,
                   assignView, assignPending, assignResp, sweepVars, scoreVars, adminVars, commentRead>>

\* the tab is closed and its end request is lost
LoseTab(b) ==
    /\ tabPc[b] = "mounted"
    /\ tabSession' = [tabSession EXCEPT ![b] = Null]
    /\ tabPc' = [tabPc EXCEPT ![b] = "unmounted"]
    /\ UNCHANGED <<lifeVars, assignVars, sweepVars, scoreVars, adminVars, commentRead>>

cleanupLogout_Now(s, t) == t

\* the synthetic logout time of a session that is cleaned up
cleanupLogout(s, t) == Min(s.loginAt + CleanupAfter, t)

isOldSession(s, t) == s.logoutAt = NoTime /\ t - s.loginAt > CleanupAfter

\* POST /sessions/cleanup-old
CleanupOldSessions ==
    /\ agentSessions' =
          [k \in 1..Len(agentSessions) |->
              IF isOldSession(agentSessions[k], now)
              THEN closeSession(agentSessions[k], cleanupLogout(agentSessions[k], now))
              ELSE agentSessions[k]]
    /\ agentSessions' # agentSessions
    /\ UNCHANGED <<now, tickets, comments, activities, settings, resp, clientVars>>

NextSessions ==
    \/ \E b \in Tabs : StartSessionClose(b)
    \/ \E b \in Tabs : StartSessionCreate(b)
    \/ \E b \in Tabs : EndSession(b)
    \/ \E b \in Tabs : LoseTab(b)
    \/ CleanupOldSessions
    \/ Tick

SpecSessions == Init /\ [][NextSessions]_vars

(* ----------------------------------- analytics: the two reports        *)
\* sequences over S of at most n elements
SeqsUpTo(S, n) == UNION {[1..k -> S] : k \in 0..n}

RECURSIVE SumOver(_, _)
\* reduce((sum, x) => sum + f(x), 0) over the rows with index in S
SumOver(S, f) ==
    IF S = {} THEN 0
    ELSE LET k == CHOOSE k \in S : TRUE IN f[k] + SumOver(S \ {k}, f)

\* entry.duration || 0
durationOrZero(entry) == IF entry.duration = NoDuration THEN 0 ELSE entry.duration

\* Math.round(num / den) of one division of two integers: the quotient is
\* exact at a half, which rounds up
MathRound(num, den) == (2 * num + den) \div (2 * den)

\* Math.round of a product of doubles whose exact value is num / den: the
\* double at an exact half may lie on either side of it (tieUp), elsewhere it
\* rounds to the nearest integer
FloatRound(num, den, tieUp) ==
    IF 2 * (num % den) = den
    THEN (IF tieUp THEN num \div den + 1 ELSE num \div den)
    ELSE (2 * num + den) \div (2 * den)

entriesOn(t, a) ==
    {k \in 1..Len(timeEntries) : timeEntries[k].ticketId = t /\ timeEntries[k].agentId = a}

countsAsReply_PublicOnly(comment) ==
    userRole[comment.authorId] \in {"AGENT", "ADMIN"} /\ ~comment.isInternal

\* comment.author.role === 'AGENT' || comment.author.role === 'ADMIN'
countsAsReply(comment) == userRole[comment.authorId] \in {"AGENT", "ADMIN"}

repliesOn(t, a) ==
    {k \in 1..Len(comments) :
        comments[k].ticketId = t /\ comments[k].authorId = a /\ countsAsReply(comments[k])}

\* the keys of agentContributions for ticket t
contributors(t) ==
    {timeEntries[k].agentId : k \in {j \in 1..Len(timeEntries) : timeEntries[j].ticketId = t}}
       \cup {a \in Users : repliesOn(t, a) # {}}

timeSpent(t, a) == SumOver(entriesOn(t, a), [k \in entriesOn(t, a) |-> durationOrZero(timeEntries[k])])
replyCount(t, a) == Cardinality(repliesOn(t, a))

totalTime(t) == SumOver(contributors(t), [a \in contributors(t) |-> timeSpent(t, a)])
totalReplies(t) == SumOver(contributors(t), [a \in contributors(t) |-> replyCount(t, a)])

\* a share as the fraction <<numerator, denominator>>
timePercentage(t, a) == IF totalTime(t) > 0 THEN <<timeSpent(t, a), totalTime(t)>> ELSE <<0, 1>>
replyPercentage(t, a) ==
    IF totalReplies(t) > 0 THEN <<replyCount(t, a), totalReplies(t)>> ELSE <<0, 1>>

weightedTimes100_RepliesFirst(tp, rp) ==
    <<40 * tp[1] * rp[2] + 60 * rp[1] * tp[2], tp[2] * rp[2]>>

\* (timePercentage * 0.6 + replyPercentage * 0.4) * 100, as a fraction
weightedTimes100(tp, rp) ==
    <<60 * tp[1] * rp[2] + 40 * rp[1] * tp[2], tp[2] * rp[2]>>

contributionPercentage(t, a, tieUp) ==
    LET w == weightedTimes100(timePercentage(t, a), replyPercentage(t, a))
    IN  FloatRound(w[1], w[2], tieUp)

\* one element of ticketContributions
ticketContribution(t, up) ==
    [status |-> tickets[t].status,
     totalTime |-> totalTime(t),
     totalReplies |-> totalReplies(t),
     agentContributions |->
        [a \in contributors(t) |->
            [timeSpent |-> timeSpent(t, a),
             replyCount |-> replyCount(t, a),
             contributionPercentage |-> contributionPercentage(t, a, a \in up)]]]

\* GET /analytics/ticket-contributions; up: the agents whose score, if at an
\* exact half, comes out above it
GetTicketContributions(actor, up) ==
    /\ IF ~requireAdmin(actor)
       THEN resp' = 403 /\ UNCHANGED report
       ELSE /\ report' = [kind |-> "ticket-contributions",
                          tickets |-> [t \in {x \in TicketIds : tickets[x].exists} |->
                                          ticketContribution(t, up)]]
            /\ resp' = 200
    /\ UNCHANGED <<now, tickets, comments, activities, agentSessions, settings,
                   assignVars, tabVars, sweepVars, adminVars, commentRead, timeEntries>>

\* prisma.user.findMany where role AGENT or ADMIN, in the table's order
agentRows == <<"a1", "a2">>

entriesOf(a) == {k \in 1..Len(timeEntries) : timeEntries[k].agentId = a}

commentsOf_WithSystem(a) == {k \in 1..Len(comments) : comments[k].authorId = a}

\* prisma.comment.findMany where authorId, isSystem: false
commentsOf(a) == {k \in 1..Len(comments) : comments[k].authorId = a /\ ~comments[k].isSystem}

\* the Set ticketIds
workedTickets(a) ==
    {timeEntries[k].ticketId : k \in entriesOf(a)} \cup {comments[k].ticketId : k \in commentsOf(a)}

agentPerformanceOf(a, tieUp) ==
    LET totalTimeSpent == SumOver(entriesOf(a),
                                  [k \in entriesOf(a) |-> durationOrZero(timeEntries[k])])
        totalTickets == Cardinality(workedTickets(a))
        solvedTickets == Cardinality({t \in workedTickets(a) : tickets[t].status = "SOLVED"})
    IN  [agent |-> a,
         totalTimeSpent |-> totalTimeSpent,
         totalReplies |-> Cardinality(commentsOf(a)),
         totalTickets |-> totalTickets,
         solvedTickets |-> solvedTickets,
         solveRate |-> IF totalTickets > 0
                       THEN FloatRound(solvedTickets * 100, totalTickets, tieUp) ELSE 0,
         avgTimePerTicket |-> IF totalTickets > 0
                              THEN MathRound(totalTimeSpent, totalTickets) ELSE 0]

\* agentPerformance.sort((a, b) => b.totalTickets - a.totalTickets): the
\* stable sort of rows by totalTickets, descending
sortByTotalTickets(rows) ==
    LET n == Len(rows)
        before(i, j) == \/ rows[i].totalTickets > rows[j].totalTickets
                        \/ rows[i].totalTickets = rows[j].totalTickets /\ i < j
        place(i) == 1 + Cardinality({j \in 1..n : j # i /\ before(j, i)})
    IN  [p \in 1..n |-> rows[CHOOSE i \in 1..n : place(i) = p]]

\* GET /analytics/agent-performance
GetAgentPerformance(actor, up) ==
    /\ IF ~requireAdmin(actor)
       THEN resp' = 403 /\ UNCHANGED report
       ELSE /\ report' = [kind |-> "agent-performance",
                          agents |-> sortByTotalTickets(
                              [i \in 1..Len(agentRows) |->
                                  agentPerformanceOf(agentRows[i], agentRows[i] \in up)])]
            /\ resp' = 200
    /\ UNCHANGED <<now, tickets, comments, activities, agentSessions, settings,
                   assignVars, tabVars, sweepVars, adminVars, commentRead, timeEntries>>

\* the rows one ticket of the contribution report is tried with
ContribComments ==
    {[ticketId |-> "t1", authorId |-> u, isInternal |-> FALSE, isSystem |-> FALSE,
      channel |-> "WEB", createdAt |-> 0] : u \in {"u1", "a1", "a2"}}
    \cup {[ticketId |-> "t1", authorId |-> "a1", isInternal |-> TRUE, isSystem |-> FALSE,
           channel |-> "WEB", createdAt |-> 0]}

\* the reports sum and count the rows they read, so one order of each
\* collection of comments is tried: by author, internal notes last
commentRank(c) ==
    (CASE c.authorId = "u1" -> 0 [] c.authorId = "a1" -> 2 [] OTHER -> 4)
       + (IF c.isInternal THEN 1 ELSE 0)

ContribCommentLists ==
    {s \in SeqsUpTo(ContribComments, MaxComments) :
        \A i \in 1..(Len(s) - 1) : commentRank(s[i]) <= commentRank(s[i + 1])}

ContribEntries ==
    {[ticketId |-> "t1", agentId |-> "a1", duration |-> 600],
     [ticketId |-> "t1", agentId |-> "a2", duration |-> 400],
     [ticketId |-> "t1", agentId |-> "a2", duration |-> NoDuration]}

\* a stored ticket with its comments and time entries
InitContrib ==
    /\ now = 0
    /\ tickets = [t \in TicketIds |->
                     IF t = "t1" THEN [NoTicket EXCEPT !.exists = TRUE, !.status = "OPEN",
                                                       !.requesterId = "u1"]
                     ELSE NoTicket]
    /\ comments \in ContribCommentLists
    /\ timeEntries \in SeqsUpTo(ContribEntries, MaxEntries)
    /\ activities = <<>>
    /\ agentSessions = <<>>
    /\ settings = <<InitialSettings>>
    /\ resp = 0
    /\ report = NoReport
    /\ InitAssignIdle /\ InitTabs /\ InitSweep /\ InitAdmin /\ InitReply

NextContrib ==
    \/ \E up \in {{}, Agents} : GetTicketContributions("a2", up)
    \/ GetTicketContributions("a1", {})

SpecContrib == InitContrib /\ [][NextContrib]_vars

\* the rows the performance report is tried with
PerfComments ==
    {[ticketId |-> t, authorId |-> "a1", isInternal |-> FALSE, isSystem |-> FALSE,
      channel |-> "WEB", createdAt |-> 0] : t \in TicketIds}
    \cup {[ticketId |-> "t2", authorId |-> "a2", isInternal |-> FALSE, isSystem |-> TRUE,
           channel |-> "WEB", createdAt |-> 0]}

PerfEntries ==
    {[ticketId |-> "t1", agentId |-> "a1", duration |-> 5],
     [ticketId |-> "t1", agentId |-> "a2", duration |-> 600],
     [ticketId |-> "t2", agentId |-> "a2", duration |-> NoDuration]}

InitPerf ==
    /\ now = 0
    /\ tickets \in [TicketIds -> {[NoTicket EXCEPT !.exists = TRUE, !.status = st,
                                                    !.requesterId = "u1"] :
                                     st \in {"OPEN", "SOLVED"}}]
    /\ comments \in SeqsUpTo(PerfComments, MaxWork)
    /\ timeEntries \in SeqsUpTo(PerfEntries, MaxWork)
    /\ activities = <<>>
    /\ agentSessions = <<>>
    /\ settings = <<InitialSettings>>
    /\ resp = 0
    /\ report = NoReport
    /\ InitAssignIdle /\ InitTabs /\ InitSweep /\ InitAdmin /\ InitReply

NextPerf ==
    \/ \E up \in {{}, Agents} : GetAgentPerformance("a2", up)
    \/ GetAgentPerformance("a1", {})

SpecPerf == InitPerf /\ [][NextPerf]_vars

(* ------------------------------------- analytics: GET /analytics/agents *)
\* prisma.agentSession.findMany where agentId
sessionsOf(a) == {k \in 1..Len(agentSessions) : agentSessions[k].agentId = a}

\* sessions[0] of orderBy loginAt desc: a session none of the agent's began after
latestSession(a) ==
    CHOOSE k \in sessionsOf(a) :
        \A j \in sessionsOf(a) : agentSessions[j].loginAt <= agentSessions[k].loginAt

isOnline_LatestOnly(a) ==
    sessionsOf(a) # {} /\ agentSessions[latestSession(a)].logoutAt = NoTime

\* sessions.some(s => s.logoutAt === null)
isOnline(a) == \E k \in sessionsOf(a) : agentSessions[k].logoutAt = NoTime

\* prisma.ticket.count where assigneeId (and status SOLVED)
assignedTickets(a) == {t \in TicketIds : tickets[t].exists /\ tickets[t].assigneeId = a}
solvedTicketsOf(a) == {t \in assignedTickets(a) : tickets[t].status = "SOLVED"}

\* s.duration || 0
sessionDurationOrZero(s) == IF s.duration = NoTime THEN 0 ELSE s.duration

\* one element of agentStats; a quotient the code does not round is kept as
\* the fraction <<numerator, denominator>>
agentStatsOf(a) ==
    LET completedSessions == {k \in sessionsOf(a) : agentSessions[k].logoutAt # NoTime}
        totalDuration == SumOver(completedSessions,
                                 [k \in completedSessions |->
                                     sessionDurationOrZero(agentSessions[k])])
        sessionReplies == SumOver(sessionsOf(a),
                                  [k \in sessionsOf(a) |-> agentSessions[k].replyCount])
        assigned == Cardinality(assignedTickets(a))
        solved == Cardinality(solvedTicketsOf(a))
    IN  [agent |-> a,
         sessions |->
            [total |-> Cardinality(sessionsOf(a)),
             totalDuration |-> totalDuration,
             avgDuration |-> IF completedSessions # {}
                             THEN MathRound(totalDuration, Cardinality(completedSessions))
                             ELSE 0,
             lastLogin |-> IF sessionsOf(a) = {} THEN NoTime
                           ELSE agentSessions[latestSession(a)].loginAt,
             isOnline |-> isOnline(a)],
         tickets |->
            [assigned |-> assigned,
             solved |-> solved,
             solveRate |-> IF assigned > 0 THEN <<solved * 100, assigned>> ELSE <<0, 1>>],
         replies |->
            [total |-> sessionReplies,
             avgPerSession |-> IF sessionsOf(a) # {}
                               THEN <<sessionReplies, Cardinality(sessionsOf(a))>>
                               ELSE <<0, 1>>]]

\* GET /analytics/agents
GetAgents(actor) ==
    /\ IF ~requireAdmin(actor)
       THEN resp' = 403 /\ UNCHANGED report
       ELSE /\ report' = [kind |-> "agents",
                          agentStats |-> [i \in 1..Len(agentRows) |->
                                             agentStatsOf(agentRows[i])]]
            /\ resp' = 200
    /\ UNCHANGED <<now, tickets, comments, activities, agentSessions, settings,
                   assignVars, tabVars, sweepVars, adminVars, commentRead, timeEntries>>

\* the session rows and tickets the agents report is tried with
StatsSessions ==
    {[agentId |-> "a1", loginAt |-> 0, logoutAt |-> NoTime, duration |-> NoTime,
      replyCount |-> 1],
     [agentId |-> "a1", loginAt |-> 1, logoutAt |-> 2, duration |-> 1, replyCount |-> 2],
     [agentId |-> "a2", loginAt |-> 0, logoutAt |-> 0, duration |-> 0,
      replyCount |-> 0],
     [agentId |-> "a2", loginAt |-> 1, logoutAt |-> NoTime, duration |-> NoTime,
      replyCount |-> 3]}

StatsTickets ==
    {[NoTicket EXCEPT !.exists = TRUE, !.status = st, !.requesterId = "u1",
                      !.assigneeId = as] :
        st \in {"OPEN", "SOLVED"}, as \in {Null, "a1", "a2"}}

InitStats ==
    /\ now = 2
    /\ tickets \in [TicketIds -> StatsTickets]
    /\ comments = <<>>
    /\ timeEntries = <<>>
    /\ activities = <<>>
    /\ agentSessions \in SeqsUpTo(StatsSessions, MaxWork)
    /\ settings = <<InitialSettings>>
    /\ resp = 0
    /\ report = NoReport
    /\ InitAssignIdle /\ InitTabs /\ InitSweep /\ InitAdmin /\ InitReply

NextStats ==
    \/ GetAgents("a2")
    \/ GetAgents("a1")

SpecStats == InitStats /\ [][NextStats]_vars

(* ------------------------------------- settings: GET / and the page     *)
\* GET /settings, first call: findFirst; with a row it is answered and the
\* page holds its id, without one the handler goes on to create
GetSettingsFind(c) ==
    /\ settingsPc[c] = "idle"
    /\ IF Len(settings) > 0
       THEN /\ settingsView' = [settingsView EXCEPT ![c] = 1]
            /\ resp' = 200
            /\ UNCHANGED settingsPc
       ELSE /\ settingsPc' = [settingsPc EXCEPT ![c] = "creating"]
            /\ UNCHANGED <<settingsView, resp>>
    /\ UNCHANGED <<now, tickets, comments, activities, agentSessions, settings,
                   assignVars, tabVars, sweepVars, scoreVars, commentRead>>

\* GET /settings, second call: prisma.settings.create({data: {}})
GetSettingsCreate(c) ==
    /\ settingsPc[c] = "creating"
    /\ settings' = Append(settings, DefaultSettings)
    /\ settingsView' = [settingsView EXCEPT ![c] = Len(settings) + 1]
    /\ settingsPc' = [settingsPc EXCEPT ![c] = "idle"]
    /\ resp' = 200
    /\ UNCHANGED <<now, tickets, comments, activities, agentSessions,
                   assignVars, tabVars, sweepVars, scoreVars, commentRead>>

\* the threshold fields of the automation rules
Thresholds ==
    {"pendingTicketReminderHours", "autoSolveHours", "autoCloseHours",
     "autoDeleteAttachmentsDays"}

\* AdminSettings handleNumberChange: a value below 1 is refused in the page,
\* another is sent for the row the page has loaded
handleNumberChange(c, field, value) ==
    /\ value >= 1
    /\ settingsView[c] # 0
    /\ UpdateSettings("a2", settingsView[c], [f \in {field} |-> value])

\* AdminSettings handleToggle
handleToggle(c, field, value) ==
    /\ settingsView[c] # 0
    /\ UpdateSettings("a2", settingsView[c], [f \in {field} |-> value])

\* the settings table is empty until the page is first opened
InitSettings ==
    /\ now = 0
    /\ tickets = [t \in TicketIds |-> NoTicket]
    /\ comments = <<>>
    /\ activities = <<>>
    /\ agentSessions = <<>>
    /\ settings = <<>>
    /\ resp = 0
    /\ InitAssignIdle /\ InitTabs /\ InitSweep /\ InitScore /\ InitAdmin /\ InitReply

\* two settings pages, and PATCH requests sent to the API directly
NextSettings ==
    \/ \E c \in SettingsClients : GetSettingsFind(c)
    \/ \E c \in SettingsClients : GetSettingsCreate(c)
    \/ \E c \in SettingsClients, f \in Thresholds, v \in {0, 2} : handleNumberChange(c, f, v)
    \/ \E c \in SettingsClients : handleToggle(c, "autoSolveEnabled", TRUE)
    \/ \E f \in Thresholds : UpdateSettings("a2", 1, [g \in {f} |-> 0])
    \/ UpdateSettings("a1", 1, [autoSolveHours |-> 2])

SpecSettings == InitSettings /\ [][NextSettings]_vars

(* ------------------------------------- replies counted in the sessions  *)
\* comments, imports and the dashboards' session requests at one instant
NextReplies ==
    \/ \E t \in OneTicket : CreateTicket("u1", t)
    \/ \E t \in OneTicket, author \in {"a1", "a2"} :
          ImportTicketWithComment("a2", t, [status |-> "open", solved_at |-> NoTime,
                                            updated_at |-> NoTime],
                                  "u1", Null, author, TRUE)
    \/ \E u \in {"u1", "a1", "a2"}, t \in OneTicket, f \in {"none", "agentSession"} :
          CreateComment(u, t, FALSE, f)
    \/ \E b \in Tabs : StartSessionClose(b)
    \/ \E b \in Tabs : StartSessionCreate(b)
    \/ \E b \in Tabs : EndSession(b)
    \/ \E b \in Tabs : LoseTab(b)

SpecReplies == Init /\ [][NextReplies]_vars

(* -------------------------------------------- GET /comments/ticket/:id  *)
commentsWhere_AllRoles(role, t) ==
    SelectSeq(comments, LAMBDA c : c.ticketId = t)

\* where = {ticketId}, with isInternal = false for role USER; the rows are in
\* createdAt order, the order they are stored in
commentsWhere(role, t) ==
    SelectSeq(comments, LAMBDA c : c.ticketId = t /\ (role = "USER" => ~c.isInternal))

\* router.get('/ticket/:ticketId')
GetComments(u, t) ==
    /\ IF ~tickets[t].exists
       THEN resp' = 404 /\ UNCHANGED report
       ELSE IF userRole[u] = "USER" /\ tickets[t].requesterId # u
       THEN resp' = 403 /\ UNCHANGED report
       ELSE /\ report' = [kind |-> "comments", caller |-> u,
                          rows |-> commentsWhere(userRole[u], t)]
            /\ resp' = 200
    /\ UNCHANGED <<now, tickets, comments, activities, agentSessions, settings,
                   assignVars, tabVars, sweepVars, adminVars, commentRead, timeEntries>>

\* comments written by the requester and an agent, imported ones, and the
\* comment list read by every role
NextVisible ==
    \/ \E t \in OneTicket : CreateTicket("u1", t)
    \/ \E t \in OneTicket, author \in {"u1", "a1"}, isPublic \in BOOLEAN :
          ImportTicketWithComment("a2", t, [status |-> "open", solved_at |-> NoTime,
                                            updated_at |-> NoTime],
                                  "u1", Null, author, isPublic)
    \/ \E u \in {"u1", "a1"}, t \in OneTicket, i \in BOOLEAN :
          CreateComment(u, t, i, "none")
    \/ \E u \in Users, t \in OneTicket : GetComments(u, t)

SpecVisible == Init /\ [][NextVisible]_vars

(* ------------------------------------ POST /comments, call by call      *)
\* comments a ticket may hold in the call-by-call runs
MaxReplies == 2

\* POST /comments up to prisma.ticket.findUnique: the handler holds the row
\* it read (commentRead[u].ticket) until its writes
CreateCommentRead(u, t, i) ==
    /\ commentRead[u] = NoRead
    /\ IF ~tickets[t].exists
       THEN resp' = 404 /\ UNCHANGED commentRead
       ELSE IF commentForbidden(userRole[u], tickets[t].requesterId, u)
       THEN resp' = 403 /\ UNCHANGED commentRead
       ELSE /\ commentRead' = [commentRead EXCEPT ![u] =
                   [kind |-> "read", ticketId |-> t, isInternal |-> i,
                    ticket |-> tickets[t]]]
            /\ UNCHANGED resp
    /\ UNCHANGED <<now, tickets, comments, activities, agentSessions, settings,
                   assignVars, tabVars, sweepVars, scoreVars, adminVars>>

\* POST /comments from comment.create on: updateData is computed from the row
\* read before and written over the row as it is now
CreateCommentWrite(u) ==
    /\ commentRead[u] # NoRead
    /\ Len(comments) < MaxReplies
    /\ LET t == commentRead[u].ticketId
           i == commentRead[u].isInternal
           ticket == commentRead[u].ticket
       IN  /\ comments' = Append(comments, CommentRow(u, t, i))
           /\ tickets' = [tickets EXCEPT
                  ![t].status = NewStatus(userRole[u], isInternalNote(i, userRole[u]),
                                          ticket.status = "PENDING", tickets[t].status),
                  ![t].firstResponseAt =
                      NewFirstResponseAt(userRole[u], ticket.firstResponseAt = NoTime,
                                         tickets[t].firstResponseAt, now)]
           /\ activities' = Append(activities, CommentAdded(u, t, i, Len(comments) + 1))
    /\ agentSessions' = SessionsAfterComment(u)
    /\ commentRead' = [commentRead EXCEPT ![u] = NoRead]
    /\ resp' = 201
    /\ UNCHANGED <<now, settings, assignVars, tabVars, sweepVars, scoreVars, adminVars>>

\* requests of the requester, an agent and an admin on one ticket, their
\* calls interleaved, while time passes
NextInterleaved ==
    \/ \E t \in OneTicket : CreateTicket("u1", t)
    \/ \E u \in {"u1", "a1", "a2"}, t \in OneTicket, i \in BOOLEAN :
          CreateCommentRead(u, t, i)
    \/ \E u \in Users : CreateCommentWrite(u)
    \/ Tick

SpecInterleaved == Init /\ [][NextInterleaved]_vars

(* ----------------------------------- TicketDetail: the reply form       *)
\* the 48 hours of isTicketClosedForReplies, in the clock's unit
ClosedForRepliesHours == 1

\* isTicketClosedForReplies: solved for more than 48 hours
isTicketClosedForReplies(t) ==
    /\ tickets[t].status = "SOLVED"
    /\ tickets[t].solvedAt # NoTime
    /\ now - tickets[t].solvedAt > ClosedForRepliesHours

\* handleReply: the form is rendered unless the ticket is closed for replies
\* and the viewer is no agent; submitting it posts the comment
handleReply(u, t, i) ==
    /\ tickets[t].exists
    /\ ~(isTicketClosedForReplies(t) /\ ~requireAgent(u))
    /\ CreateComment(u, t, i, "none")

\* a ticket that is solved and ages; replies through the form and requests
\* sent to POST /comments without it
NextClosed ==
    \/ \E t \in OneTicket : CreateTicket("u1", t)
    \/ \E t \in OneTicket, s \in {"OPEN", "PENDING", "SOLVED"} :
          handleStatusChange("a1", t, s)
    \/ \E u \in {"u1", "a1", "a2"}, t \in OneTicket : handleReply(u, t, FALSE)
    \/ \E t \in OneTicket : CreateComment("u1", t, FALSE, "none")
    \/ Tick

SpecClosed == Init /\ [][NextClosed]_vars

(* ------------------------------------- dashboards: mount and unmount    *)
\* the dashboard on tab b unmounts while sessionApi.start is not answered:
\* the cleanup of the 'End session on unmount' effect finds activeSessionId
\* null and sends nothing
UnmountStarting(b) ==
    /\ tabPc[b] = "starting"
    /\ tabPc' = [tabPc EXCEPT ![b] = "left"]
    /\ UNCHANGED <<lifeVars, assignVars, tabSession, sweepVars, scoreVars, adminVars,
                   commentRead>>

\* POST /sessions/start, second call, answered to a dashboard that is gone:
\* the session is created and setActiveSessionId has no component to act on
StartSessionCreateLeft(b) ==
    /\ tabPc[b] = "left"
    /\ Len(agentSessions) < MaxRows
    /\ agentSessions' = Append(agentSessions,
          [agentId |-> tabAgent[b], loginAt |-> now, logoutAt |-> NoTime,
           duration |-> NoTime, replyCount |-> 0])
    /\ tabPc' = [tabPc EXCEPT ![b] = "unmounted"]
    /\ UNCHANGED <<now, tickets, comments, activities, settings, resp,
                   assignVars, tabSession, sweepVars, scoreVars, adminVars, commentRead>>

\* dashboards that mount and unmount, at any point of the start request
NextDashboard ==
    \/ \E b \in Tabs : StartSessionClose(b)
    \/ \E b \in Tabs : StartSessionCreate(b)
    \/ \E b \in Tabs : EndSession(b)
    \/ \E b \in Tabs : UnmountStarting(b)
    \/ \E b \in Tabs : StartSessionCreateLeft(b)
    \/ Tick

SpecDashboard == Init /\ [][NextDashboard]_vars

(* ================================================================ claims *)
\* the comment stored last and the activity entry appended last
lastComment == comments[Len(comments)]
lastActivity == activities[Len(activities)]

\* the last request was a POST /comments answered 201 whose rows are the last ones
CommentJustCreated ==
    /\ resp = 201
    /\ Len(comments) > 0
    /\ Len(activities) > 0
    /\ lastActivity.action = "comment_added"
    /\ lastActivity.details.commentId = Len(comments)

\* C1: for every prior status, a createComment answered 201 whose author is an
\* AGENT or ADMIN and whose comment is not internal leaves the ticket PENDING.
C1_AgentReplySetsPending ==
    [][\A u \in Agents, t \in TicketIds :
          (tickets[t].exists /\ CreateComment(u, t, FALSE, "none"))
             => tickets'[t].status = "PENDING"]_vars

\* C1 witness: an imported SOLVED ticket (solvedAt kept) after an agent's public reply
C1_Witness ==
    /\ CommentJustCreated
    /\ lastComment.authorId \in Agents
    /\ ~lastComment.isInternal
    /\ tickets[lastComment.ticketId].status = "PENDING"
    /\ tickets[lastComment.ticketId].solvedAt # NoTime

\* C2: a createComment answered 201 whose author is the requester (role USER)
\* sets status OPEN when the status was PENDING and leaves every other status
\* as it was.
C2_RequesterReplyReopensPending ==
    [][\A u \in Users \ Agents, t \in TicketIds, i \in BOOLEAN :
          (tickets[t].exists /\ tickets[t].requesterId = u /\ CreateComment(u, t, i, "none"))
             => tickets'[t].status =
                   (IF tickets[t].status = "PENDING" THEN "OPEN" ELSE tickets[t].status)]_vars

\* C2 witness: a ticket manually set PENDING, then the requester's reply: OPEN
C2_Witness ==
    /\ CommentJustCreated
    /\ Len(activities) = 2
    /\ activities[1].action = "status_changed"
    /\ activities[1].details.newStatus = "PENDING"
    /\ userRole[lastComment.authorId] = "USER"
    /\ tickets[lastComment.ticketId].status = "OPEN"

\* C3: a createComment stored as an internal note (isInternal sent true by an
\* AGENT or ADMIN) leaves the ticket's status as it was, whatever the outcome
\* of the request.
C3_InternalNoteKeepsStatus ==
    [][\A u \in Agents, t \in TicketIds, f \in FailPoints :
          (tickets[t].exists /\ CreateComment(u, t, TRUE, f))
             => tickets'[t].status = tickets[t].status]_vars

\* C3 witness: an internal note stored on a SOLVED ticket that is still SOLVED
C3_Witness ==
    /\ CommentJustCreated
    /\ lastComment.authorId \in Agents
    /\ lastComment.isInternal
    /\ tickets[lastComment.ticketId].status = "SOLVED"

\* C4: in every reachable state a ticket whose status is NEW, OPEN, PENDING or
\* ON_HOLD has solvedAt null and a ticket whose status is SOLVED has solvedAt
\* set (so an agent reply on a SOLVED ticket clears solvedAt, and an import
\* stores solvedAt only with status SOLVED).
C4_SolvedAtMatchesStatus ==
    \A t \in TicketIds :
        tickets[t].exists =>
            /\ tickets[t].status \in {"NEW", "OPEN", "PENDING", "ON_HOLD"}
                  => tickets[t].solvedAt = NoTime
            /\ tickets[t].status = "SOLVED" => tickets[t].solvedAt # NoTime

\* C4, the reply part alone: a comment request never leaves a ticket PENDING or
\* OPEN with solvedAt set when the ticket satisfied the claim before it.
C4_ReplyClearsSolvedAt ==
    [][\A u \in Users, t \in TicketIds, i \in BOOLEAN, f \in FailPoints :
          (C4_SolvedAtMatchesStatus /\ tickets[t].exists /\ CreateComment(u, t, i, f))
             => C4_SolvedAtMatchesStatus']_vars

\* C5: firstResponseAt is null until the first createComment by an AGENT or
\* ADMIN that is answered 201, that comment sets it (to the time of the
\* comment), and no later request changes it.
C5_FirstResponseAtSetOnce ==
    [][\A t \in TicketIds :
          tickets[t].exists =>
            /\ tickets'[t].firstResponseAt # tickets[t].firstResponseAt
                 => /\ tickets[t].firstResponseAt = NoTime
                    /\ resp' = 201
                    /\ \E u \in Agents, i \in BOOLEAN : CreateComment(u, t, i, "none")
            /\ \A u \in Agents, i \in BOOLEAN :
                 (tickets[t].firstResponseAt = NoTime /\ CreateComment(u, t, i, "none"))
                    => tickets'[t].firstResponseAt = now]_vars

\* C6: CLOSED is terminal: no step changes the status of a CLOSED ticket.
C6_ClosedIsTerminal ==
    [][\A t \in TicketIds :
          tickets[t].status = "CLOSED" => tickets'[t].status = "CLOSED"]_vars

\* C7: a ticket enters CLOSED only by the auto-close rule: from SOLVED, with
\* autoCloseEnabled and at least autoCloseHours elapsed since solvedAt.
C7_ClosedOnlyByAutoClose ==
    [][\A t \in TicketIds :
          (tickets[t].status # "CLOSED" /\ tickets'[t].status = "CLOSED")
             => autoCloseDue(t)]_vars

\* C8: createComment is atomic: whatever the outcome of a request that passed
\* the 404/403 checks, either the comment row, the ticket update, the
\* comment_added entry and the replyCount increment are all applied, or none is.
C8_CreateCommentAtomic ==
    [][\A u \in Users, t \in TicketIds, i \in BOOLEAN, f \in FailPoints :
          (/\ tickets[t].exists
           /\ userRole[u] = "USER" => tickets[t].requesterId = u
           /\ CreateComment(u, t, i, f))
             => \/ /\ comments' = Append(comments, CommentRow(u, t, i))
                   /\ tickets' = [tickets EXCEPT ![t] = TicketAfterComment(u, t, i)]
                   /\ activities' = Append(activities,
                                           CommentAdded(u, t, i, Len(comments) + 1))
                   /\ agentSessions' = SessionsAfterComment(u)
                \/ UNCHANGED <<comments, tickets, activities, agentSessions>>]_vars

\* C9: every step that changes a ticket's status appends exactly one activity
\* entry, which records the old status, the new status and the acting user
\* (null for the sweep).
C9_StatusChangeLogged ==
    [][\A t \in TicketIds :
          (tickets[t].exists /\ tickets'[t].status # tickets[t].status)
             => /\ Len(activities') = Len(activities) + 1
                /\ activities'[Len(activities')].ticketId = t
                /\ activities'[Len(activities')].action = "status_changed"
                /\ activities'[Len(activities')].details =
                      [oldStatus |-> tickets[t].status, newStatus |-> tickets'[t].status]
                /\ activities'[Len(activities')].userId \in Users \cup {Null}]_vars

\* C10: an assignment request for a ticket with no assignee is answered 200 and
\* makes the requesting agent X the assignee; a request of another agent Y
\* arriving while the ticket has an assignee, whether sent later or at the same
\* time, is answered 409 and leaves the assignee as it was.
C10_AssignIsClaimOnce ==
    [][\A a \in Agents, t \in TicketIds :
          (assignPending[a] = t /\ UpdateAssignee(a, t))
             => IF tickets[t].assigneeId = Null
                THEN assignResp'[a] = 200 /\ tickets'[t].assigneeId = a
                ELSE tickets[t].assigneeId # a
                        => /\ assignResp'[a] = 409
                           /\ tickets'[t].assigneeId = tickets[t].assigneeId]_vars

\* C11: a comment request for a ticket that does not exist is answered 404, a
\* comment request of a USER who is not the ticket's requester is answered 403,
\* and a manual update by a non-agent is answered 403; none of them changes a
\* comment, a ticket, an activity entry or a session.
C11_RejectedRequestsChangeNothing ==
    [][/\ \A u \in Users, t \in TicketIds, i \in BOOLEAN, f \in FailPoints :
             (~tickets[t].exists /\ CreateComment(u, t, i, f))
                => resp' = 404
                   /\ UNCHANGED <<tickets, comments, activities, agentSessions>>
       /\ \A u \in Users \ Agents, t \in TicketIds, i \in BOOLEAN, f \in FailPoints :
             (tickets[t].exists /\ tickets[t].requesterId # u /\ CreateComment(u, t, i, f))
                => resp' = 403
                   /\ UNCHANGED <<tickets, comments, activities, agentSessions>>
       /\ \A u \in Users \ Agents, t \in TicketIds, s \in TicketStatus :
             UpdateTicket(u, t, s)
                => resp' = 403
                   /\ UNCHANGED <<tickets, comments, activities, agentSessions>>]_vars

\* C11 witness: a USER's request was answered 403 on an existing ticket that
\* has no comment and no activity entry
C11_Witness ==
    /\ resp = 403
    /\ \E t \in TicketIds : tickets[t].exists
    /\ comments = <<>>
    /\ activities = <<>>

\* C12: whatever the order and interleaving of startSession, endSession and
\* cleanupOldSessions calls, each agent has at most one session with logoutAt
\* null.
C12_OneActiveSessionPerAgent ==
    \A a \in Agents : Cardinality(ActiveSessions(a)) <= 1

\* C13: cleanupOldSessions closes exactly the sessions with logoutAt null and
\* loginAt more than 24 hours before now, with logoutAt = min(loginAt + 24h,
\* now) and duration = logoutAt - loginAt, and leaves every other session as
\* it was.
C13_CleanupClosesExactlyOld ==
    [][CleanupOldSessions =>
          /\ Len(agentSessions') = Len(agentSessions)
          /\ \A k \in 1..Len(agentSessions) :
                IF agentSessions[k].logoutAt = NoTime
                   /\ now - agentSessions[k].loginAt > CleanupAfter
                THEN /\ agentSessions'[k].logoutAt =
                           (IF agentSessions[k].loginAt + CleanupAfter < now
                            THEN agentSessions[k].loginAt + CleanupAfter ELSE now)
                     /\ agentSessions'[k].duration =
                           agentSessions'[k].logoutAt - agentSessions[k].loginAt
                     /\ agentSessions'[k].agentId = agentSessions[k].agentId
                     /\ agentSessions'[k].loginAt = agentSessions[k].loginAt
                     /\ agentSessions'[k].replyCount = agentSessions[k].replyCount
                ELSE agentSessions'[k] = agentSessions[k]]_vars

\* C13 witness: at 2 the lost session opened at 0 was cleaned up (closed at 1,
\* one unit long; no tab of its agent started or ended a session), while the
\* session another agent opened at 1 is still open
C13_Witness ==
    /\ now = 2
    /\ agentSessions[1].logoutAt = 1
    /\ agentSessions[1].duration = 1
    /\ tabPc["tabA"] = "unmounted"
    /\ tabPc["tabB"] = "unmounted"
    /\ \A k \in 2..Len(agentSessions) : agentSessions[k].agentId # agentSessions[1].agentId
    /\ \E j \in 2..Len(agentSessions) :
          agentSessions[j].logoutAt = NoTime /\ agentSessions[j].loginAt = 1

\* this step appended a status_changed entry of the system actor moving
\* ticket t to status new
SweepWrote(t, new) ==
    /\ Len(activities') = Len(activities) + 1
    /\ activities'[Len(activities')].action = "status_changed"
    /\ activities'[Len(activities')].userId = Null
    /\ activities'[Len(activities')].ticketId = t
    /\ activities'[Len(activities')].details.newStatus = new

\* this step is the sweep processing ticket t
SweepProcessed(t) == sweepPc = "running" /\ t \in sweepQueue /\ t \notin sweepQueue'

\* C14: the sweep moves a ticket to SOLVED only if, at the time of the
\* transition, autoSolveEnabled is true, the status is PENDING and
\* now - lastAgentReplyTime >= autoSolveHours; a ticket failing one of the
\* three conditions is never moved to SOLVED by the sweep.
C14_AutoSolveOnlyWhenDue ==
    [][\A t \in TicketIds :
          /\ SweepWrote(t, "SOLVED") =>
                /\ settingsRow.autoSolveEnabled
                /\ tickets[t].status = "PENDING"
                /\ lastAgentReplyTime(t) # NoTime
                /\ now - lastAgentReplyTime(t) >= settingsRow.autoSolveHours
          /\ (SweepProcessed(t)
              /\ ~(/\ settingsRow.autoSolveEnabled
                   /\ tickets[t].status = "PENDING"
                   /\ lastAgentReplyTime(t) # NoTime
                   /\ now - lastAgentReplyTime(t) >= settingsRow.autoSolveHours))
                => (tickets'[t].status = "SOLVED" => tickets[t].status = "SOLVED")]_vars

\* C14 witness: with autoSolveHours raised to 2, the ticket the agent answered
\* at 0 was solved by the sweep at 2
C14_Witness ==
    /\ now = 2
    /\ settingsRow.autoSolveHours = 2
    /\ tickets["t1"].status = "SOLVED"
    /\ tickets["t1"].solvedAt = 2
    /\ activities # <<>>
    /\ lastActivity = StatusChanged("t1", Null, "PENDING", "SOLVED")

\* C15: a sweep transition is applied only if the ticket's status still is
\* the rule's precondition when it is written (PENDING for auto-solve, SOLVED
\* for auto-close): it writes exactly one status_changed entry, leaves the
\* ticket outside the precondition so that a further run does not repeat it,
\* and a ticket a manual update has moved elsewhere is left as the update
\* left it.
C15_SweepWritesOnlyOnPrecondition ==
    [][\A t \in TicketIds :
          /\ SweepWrote(t, "SOLVED") =>
                /\ tickets[t].status = "PENDING"
                /\ activities'[Len(activities')].details.oldStatus = "PENDING"
                /\ tickets'[t].status = "SOLVED"
          /\ SweepWrote(t, "CLOSED") =>
                /\ tickets[t].status = "SOLVED"
                /\ activities'[Len(activities')].details.oldStatus = "SOLVED"
                /\ tickets'[t].status = "CLOSED"
          /\ (SweepProcessed(t) /\ tickets[t].status \notin {"PENDING", "SOLVED"})
                => tickets' = tickets /\ activities' = activities
          /\ (SweepProcessed(t) /\ tickets'[t].status # tickets[t].status)
                => SweepWrote(t, tickets'[t].status)]_vars

\* C15 witness: a run closed the ticket an agent had solved by hand
C15_Witness ==
    /\ sweepDone = {"t1"}
    /\ tickets["t1"].status = "CLOSED"
    /\ Len(activities) = 2
    /\ activities[1] = StatusChanged("t1", "a1", "NEW", "SOLVED")
    /\ activities[2] = StatusChanged("t1", Null, "SOLVED", "CLOSED")

\* C16: a failure while the sweep processes one ticket does not stop the
\* run: the failed ticket is collected in failures and nothing of it is
\* written, every other ticket the run read is still processed, and every
\* started run ends with its result.
C16_SweepIsolatesFailures ==
    /\ [][/\ (sweepPc = "running" /\ sweepFailures' # sweepFailures) =>
                /\ sweepPc' = "running"
                /\ \E t \in sweepQueue :
                      /\ sweepFailures' = sweepFailures \cup {t}
                      /\ sweepQueue' = sweepQueue \ {t}
                /\ tickets' = tickets
                /\ activities' = activities
          /\ sweepPc = "running" =>
                sweepQueue' \cup sweepDone' \cup sweepFailures'
                   = sweepQueue \cup sweepDone \cup sweepFailures]_vars
    /\ [](sweepPc = "idle" => sweepQueue = {})
    /\ [](sweepDone \cap sweepFailures = {})
    /\ (sweepPc = "running" ~> sweepPc = "idle")

\* C16 witness: a run ended in which t1 failed and t2 was closed all the same
C16_Witness ==
    /\ sweepPc = "idle"
    /\ sweepFailures = {"t1"}
    /\ sweepDone = {"t2"}
    /\ tickets["t1"].status = "SOLVED"
    /\ tickets["t2"].status = "CLOSED"
    /\ activities # <<>>
    /\ lastActivity = StatusChanged("t2", Null, "SOLVED", "CLOSED")

\* the sum of the contributionPercentage values of one ticket of the report
percentSum(row) ==
    SumOver(DOMAIN row.agentContributions,
            [a \in DOMAIN row.agentContributions |->
                row.agentContributions[a].contributionPercentage])

\* C17: for every ticket of the contribution report, whenever totalTime > 0
\* or totalReplies > 0 the contributionPercentage values of its agents sum
\* to between 99 and 101.
C17_PercentagesSumTo100 ==
    report.kind = "ticket-contributions" =>
        \A t \in DOMAIN report.tickets :
            (report.tickets[t].totalTime > 0 \/ report.tickets[t].totalReplies > 0)
               => percentSum(report.tickets[t]) \in 99..101

\* pct is an integer nearest to num / den
nearest(pct, num, den) == 2 * (pct * den - num) <= den /\ 2 * (num - pct * den) <= den

\* C18: each agent's contributionPercentage is
\* round((timeShare * 0.6 + replyShare * 0.4) * 100), where timeShare =
\* timeSpent / totalTime and replyShare = replyCount / totalReplies, each 0
\* when its total is 0; A (600 s, 3 replies) and B (400 s, 1 reply) get 66
\* and 34.
C18_ContributionIsWeightedShare ==
    report.kind = "ticket-contributions" =>
        \A t \in DOMAIN report.tickets :
            LET row == report.tickets[t]
                T == row.totalTime
                R == row.totalReplies
            IN  \A a \in DOMAIN row.agentContributions :
                   LET c == row.agentContributions[a]
                   IN  /\ (T > 0 /\ R > 0) =>
                              nearest(c.contributionPercentage,
                                      60 * c.timeSpent * R + 40 * c.replyCount * T, T * R)
                       /\ (T > 0 /\ R = 0) =>
                              nearest(c.contributionPercentage, 60 * c.timeSpent, T)
                       /\ (T = 0 /\ R > 0) =>
                              nearest(c.contributionPercentage, 40 * c.replyCount, R)
                       /\ (T = 0 /\ R = 0) => c.contributionPercentage = 0
                       /\ (T = 1000 /\ R = 4 /\ c.timeSpent = 600 /\ c.replyCount = 3)
                              => c.contributionPercentage = 66
                       /\ (T = 1000 /\ R = 4 /\ c.timeSpent = 400 /\ c.replyCount = 1)
                              => c.contributionPercentage = 34

\* C18 witness: the report of a ticket on which a1 spent 600 s and wrote 3
\* comments and a2 spent 400 s and wrote 1
C18_Witness ==
    /\ report.kind = "ticket-contributions"
    /\ DOMAIN report.tickets["t1"].agentContributions = {"a1", "a2"}
    /\ report.tickets["t1"].agentContributions["a1"] =
          [timeSpent |-> 600, replyCount |-> 3, contributionPercentage |-> 66]
    /\ report.tickets["t1"].agentContributions["a2"] =
          [timeSpent |-> 400, replyCount |-> 1, contributionPercentage |-> 34]

ticketSetOf(a) ==
    {t \in TicketIds :
        \/ \E k \in 1..Len(timeEntries) :
              timeEntries[k].agentId = a /\ timeEntries[k].ticketId = t
        \/ \E k \in 1..Len(comments) :
              comments[k].authorId = a /\ comments[k].ticketId = t /\ ~comments[k].isSystem}

\* the row's ticket counts are those of the agent's ticket set
countsOfTicketSet(row) ==
    /\ row.totalTickets = Cardinality(ticketSetOf(row.agent))
    /\ row.solvedTickets =
          Cardinality({t \in ticketSetOf(row.agent) : tickets[t].status = "SOLVED"})

\* C20 as stated: in the contribution-based performance report an agent's
\* ticket set is the tickets with at least one time entry or non-system
\* comment of the agent, solvedTickets those of them now SOLVED, solveRate =
\* solvedTickets / totalTickets * 100 and avgTimePerTicket = totalTimeSpent /
\* totalTickets, both 0 when totalTickets is 0.
C20_RatesAreQuotients ==
    report.kind = "agent-performance" =>
        \A i \in 1..Len(report.agents) :
            LET row == report.agents[i]
            IN  /\ countsOfTicketSet(row)
                /\ row.totalTickets = 0 => row.solveRate = 0 /\ row.avgTimePerTicket = 0
                /\ row.totalTickets > 0 =>
                      /\ row.solveRate * row.totalTickets = row.solvedTickets * 100
                      /\ row.avgTimePerTicket * row.totalTickets = row.totalTimeSpent

\* C20 amended: the same, with solveRate and avgTimePerTicket the quotients
\* rounded to the nearest integer.
C20_RatesAreRoundedQuotients ==
    report.kind = "agent-performance" =>
        \A i \in 1..Len(report.agents) :
            LET row == report.agents[i]
            IN  /\ countsOfTicketSet(row)
                /\ row.totalTickets = 0 => row.solveRate = 0 /\ row.avgTimePerTicket = 0
                /\ row.totalTickets > 0 =>
                      /\ nearest(row.solveRate, row.solvedTickets * 100, row.totalTickets)
                      /\ nearest(row.avgTimePerTicket, row.totalTimeSpent, row.totalTickets)

\* C20 witness: a1 tracked 5 s on t1 and commented on t2, one of the two
\* SOLVED: 2 tickets, 1 solved, rate 50, average 3
C20_Witness ==
    /\ report.kind = "agent-performance"
    /\ \E i \in 1..Len(report.agents) :
          /\ report.agents[i].agent = "a1"
          /\ report.agents[i].totalTimeSpent = 5
          /\ report.agents[i].totalTickets = 2
          /\ report.agents[i].solvedTickets = 1
          /\ report.agents[i].solveRate = 50
          /\ report.agents[i].avgTimePerTicket = 3

\* C21: in the assignment-based report, for every agent solveRate =
\* solved / assigned * 100 over the tickets whose assigneeId is the agent (0
\* when none is assigned), isOnline holds iff the agent has a session with
\* logoutAt null, and the total of replies is the sum of replyCount over the
\* agent's sessions.
C21_AssignmentStats ==
    report.kind = "agents" =>
        \A i \in 1..Len(report.agentStats) :
            LET row == report.agentStats[i]
                a == row.agent
                mine == {t \in TicketIds : tickets[t].exists /\ tickets[t].assigneeId = a}
                solved == Cardinality({t \in mine : tickets[t].status = "SOLVED"})
                own == {k \in 1..Len(agentSessions) : agentSessions[k].agentId = a}
            IN  /\ row.tickets.assigned = Cardinality(mine)
                /\ row.tickets.solved = solved
                /\ mine = {} => row.tickets.solveRate[1] = 0
                /\ mine # {} => row.tickets.solveRate[1] * Cardinality(mine)
                                   = solved * 100 * row.tickets.solveRate[2]
                /\ row.sessions.isOnline <=> \E k \in own : agentSessions[k].logoutAt = NoTime
                /\ row.replies.total = SumOver(own, [k \in own |-> agentSessions[k].replyCount])

\* C21 witness: a1, with one of two assigned tickets solved, an open session
\* older than a closed one and 3 replies over both, is reported at rate
\* 100/2, online, 3 replies
C21_Witness ==
    /\ report.kind = "agents"
    /\ \E i \in 1..Len(report.agentStats) :
          /\ report.agentStats[i].agent = "a1"
          /\ report.agentStats[i].tickets.assigned = 2
          /\ report.agentStats[i].tickets.solveRate = <<100, 2>>
          /\ report.agentStats[i].sessions.isOnline
          /\ report.agentStats[i].sessions.lastLogin = 1
          /\ report.agentStats[i].replies.total = 3

\* C22: a settings update carrying a rule threshold
\* (pendingTicketReminderHours, autoSolveHours, autoCloseHours,
\* autoDeleteAttachmentsDays) below 1 is rejected and leaves the stored
\* settings unchanged, so every stored threshold is at least 1 after any
\* sequence of updates.
C22_ThresholdsAtLeastOne ==
    \A k \in 1..Len(settings) : \A f \in Thresholds : settings[k][f] >= 1

\* C30: Settings stays a singleton: after any interleaving of settings reads
\* (which create a default row when none exists) and updates, at most one
\* Settings row exists.
C30_SettingsSingleton == Len(settings) <= 1

\* C23: each successful createComment by an AGENT or ADMIN who has an active
\* session (logoutAt null) increases the replyCount of exactly one of that
\* agent's active sessions by 1 and changes no other session; a comment by a
\* USER or by an agent without an active session changes no replyCount.
C23_ReplyCountsOneActiveSession ==
    [][(resp' = 201 /\ Len(comments') = Len(comments) + 1) =>
          LET u == comments'[Len(comments')].authorId
              open == {k \in 1..Len(agentSessions) :
                          agentSessions[k].agentId = u /\ agentSessions[k].logoutAt = NoTime}
          IN  /\ Len(agentSessions') = Len(agentSessions)
              /\ IF u \in Agents /\ open # {}
                 THEN \E k \in open :
                         /\ agentSessions'[k] =
                               [agentSessions[k] EXCEPT !.replyCount = @ + 1]
                         /\ \A j \in 1..Len(agentSessions) :
                               j # k => agentSessions'[j] = agentSessions[j]
                 ELSE agentSessions' = agentSessions]_vars

\* C23 witness: a1, with two sessions open, has replied once: one of them
\* counts 1, the other 0
C23_Witness ==
    /\ resp = 201
    /\ Len(comments) = 1
    /\ comments[1].authorId = "a1"
    /\ \E k, j \in 1..Len(agentSessions) :
          /\ k # j
          /\ agentSessions[k].agentId = "a1" /\ agentSessions[j].agentId = "a1"
          /\ agentSessions[k].logoutAt = NoTime /\ agentSessions[j].logoutAt = NoTime
          /\ agentSessions[k].replyCount = 1 /\ agentSessions[j].replyCount = 0

\* C29: after any sequence of createComment, import and session operations,
\* for every agent the sum of replyCount over the agent's sessions is at most
\* the number of non-system comments the agent wrote.
C29_SessionRepliesAtMostComments ==
    \A a \in Agents :
        LET own == {k \in 1..Len(agentSessions) : agentSessions[k].agentId = a}
        IN  SumOver(own, [k \in own |-> agentSessions[k].replyCount])
               <= Cardinality({k \in 1..Len(comments) :
                                  comments[k].authorId = a /\ ~comments[k].isSystem})

\* C29 witness: a1 has an imported comment and a reply written in a session:
\* 2 comments, 1 reply counted
C29_Witness ==
    /\ Len(comments) = 2
    /\ comments[1].authorId = "a1" /\ comments[1].channel = "SYSTEM"
    /\ comments[2].authorId = "a1" /\ comments[2].channel = "WEB"
    /\ resp = 201
    /\ \E k \in 1..Len(agentSessions) :
          agentSessions[k].agentId = "a1" /\ agentSessions[k].replyCount = 1

\* C24: internal comments are visible only to agents and admins: the comment
\* list returned to a caller with role USER never contains a comment with
\* isInternal = true, and a comment submitted by a USER with isInternal = true
\* is stored as non-internal.
C24_InternalHiddenFromUsers ==
    [][/\ (report'.kind = "comments" /\ userRole[report'.caller] = "USER") =>
             \A k \in 1..Len(report'.rows) : ~report'.rows[k].isInternal
       /\ \A u \in Users, t \in OneTicket :
             (userRole[u] = "USER" /\ CreateComment(u, t, TRUE, "none")
                 /\ Len(comments') = Len(comments) + 1) =>
             ~comments'[Len(comments')].isInternal]_vars

\* C24 witness: the requester has read the comments of a ticket that holds an
\* internal note and the requester's own comment, and got only the latter
C24_Witness ==
    /\ report.kind = "comments" /\ report.caller = "u1" /\ resp = 200
    /\ Len(report.rows) = 1 /\ report.rows[1].authorId = "u1"
    /\ report.rows[1].channel = "WEB"
    /\ \E k \in 1..Len(comments) : comments[k].isInternal

C26_FirstResponseWrittenOnce ==
    [][\A t \in OneTicket :
          tickets[t].firstResponseAt # NoTime =>
             tickets'[t].firstResponseAt = tickets[t].firstResponseAt]_vars

\* C27: a requester (role USER) cannot add a reply to a ticket that has been
\* SOLVED for more than 48 hours: no createComment by a USER succeeds on a
\* ticket with status SOLVED and now - solvedAt > 48h, while agents and
\* admins can still reply.
C27_NoUserReplyOnClosedTicket ==
    [][\A t \in OneTicket :
          (/\ tickets[t].status = "SOLVED"
           /\ tickets[t].solvedAt # NoTime
           /\ now - tickets[t].solvedAt > ClosedForRepliesHours) =>
             ~(/\ resp' = 201
               /\ Len(comments') = Len(comments) + 1
               /\ comments'[Len(comments')].ticketId = t
               /\ userRole[comments'[Len(comments')].authorId] = "USER")]_vars

\* C28: every session the agent dashboard starts on mount is eventually ended
\* by the dashboard: for every interleaving of the start response with the
\* unmount, an endSession call is issued for the session id that startSession
\* created. Once all dashboards of an agent are unmounted with no start
\* request unanswered, no call can follow, so by then no session a dashboard
\* started is open (row 1 is the session the system starts with, begun before
\* any dashboard of the run).
C28_StartedSessionsAreEnded ==
    \A a \in Agents :
        (\A b \in Tabs : tabAgent[b] = a => tabPc[b] = "unmounted") =>
            \A k \in ActiveSessions(a) : k = 1
====
